---- MODULE Spec2Model ----
(***************************************************************************)
(* Model of "Tool Integration/tools_demo.py": a four-node linear LangGraph  *)
(* pipeline (enhance_query -> search_tool -> summarize -> format) run by a  *)
(* driver loop over three fixed test queries.                               *)
(*                                                                          *)
(* Text is modelled as TLA+ strings.  The content of a language-model       *)
(* response is a sequence of one-character strings, so that str.strip() is  *)
(* computed character by character; Str turns it into a string.  A report   *)
(* is the sequence of its lines (the printed text is the lines joined by    *)
(* newlines).                                                               *)
(* The emoji that the script prints are left out of the modelled text.      *)
(***************************************************************************)
EXTENDS Integers, Sequences, FiniteSets, TLC

VARIABLES
    qi,       \* driver loop: index in test_queries of the current query
    pc,       \* "loop", a node name, "END" (app.invoke returned) or "done"
    state,    \* the ToolState record of the current run
    log,      \* console trace of the whole script: <<event, query index>>
    calls,    \* external calls made in the current run, in order, each
              \* with the argument it was given and whether it raised
    resp,     \* contents returned by llm.invoke in the current run
    svc,      \* what the search service did in the current run
    output,   \* report texts printed by format_output_node in the current run
    entry     \* the record format_output_node received

vars == <<qi, pc, state, log, calls, resp, svc, output, entry>>

--------------------------------------------------------------------------
(* Bounds and input sets *)

\* longest hit list the search backend may hold for one query
PoolLen == 4

\* number of times the formatter is applied in SpecFmt
MaxApply == 3

\* contents the language model may answer with
Responses ==
    { <<>>, <<" ">>, <<"a">>, <<"a", " ">>, <<" ", "a", " ", "b", " ">> }

\* result objects of the search service: a title and a body field, each
\* possibly absent
Results ==
    { [title |-> "A", body |-> "B"], [title |-> "C"], [body |-> "D"] }

\* messages of the errors the search service may raise
Messages == { "timeout", "rate limit" }

\* where inside the with-block the search service raises, if it does:
\* "enter" is DDGS() / __enter__, "text" is ddgs.text, "exit" is __exit__
RaisePoints == { "none", "enter", "text", "exit" }

RECURSIVE SeqsUpTo(_, _)
SeqsUpTo(S, n) ==
    IF n = 0 THEN { <<>> }
    ELSE LET shorter == SeqsUpTo(S, n - 1)
         IN  shorter \cup { Append(s, x) : s \in { t \in shorter : Len(t) = n - 1 }, x \in S }

Pools == SeqsUpTo(Results, PoolLen)

--------------------------------------------------------------------------
(* Program constants *)

test_queries ==
    << "What is LangGraph used for?", "How to build AI agents?",
       "DuckDuckGo search API" >>

max_results == 3

initial_state(query) ==
    [ query |-> query, enhanced_query |-> "", search_results |-> <<>>,
      summary |-> "" ]

--------------------------------------------------------------------------
(* Text helpers *)

IsSpace(c) == c \in { " ", "\t", "\n" }

RECURSIVE LStrip(_)
LStrip(s) ==
    IF s # <<>> /\ IsSpace(Head(s)) THEN LStrip(Tail(s)) ELSE s

RECURSIVE RStrip(_)
RStrip(s) ==
    IF s # <<>> /\ IsSpace(s[Len(s)]) THEN RStrip(SubSeq(s, 1, Len(s) - 1)) ELSE s

\* str.strip()
Strip(s) == RStrip(LStrip(s))

RECURSIVE Str(_)
Str(s) == IF s = <<>> THEN "" ELSE Head(s) \o Str(Tail(s))

RECURSIVE Join(_, _)
\* sep.join(lines)
Join(lines, sep) ==
    IF lines = <<>> THEN ""
    ELSE IF Len(lines) = 1 THEN lines[1]
    ELSE lines[1] \o sep \o Join(Tail(lines), sep)

Min(a, b) == IF a <= b THEN a ELSE b

\* dict.get(key, default)
Get(result, key, default) ==
    IF key \in DOMAIN result THEN result[key] ELSE default

--------------------------------------------------------------------------
(* The four nodes, as functions from the record and the external answers  *)
(* to the update they return                                               *)

\* the prompt of enhance_query_node
EnhancePrompt(st) ==
    "Enhance this search query to get better results. \n"
        \o "    Make it more specific and add relevant keywords.\n"
        \o "    Original query: " \o st.query \o "\n"
        \o "    Enhanced query (return only the query, no explanation):"

\* the prompt of summarize_node
SummarizePrompt(st) ==
    "Summarize these search results for the query '" \o st.query \o "':\n\n"
        \o Join(st.search_results, "\n")
        \o "\n\nProvide a concise, helpful summary:"

enhance_query_node(st, content) ==
    [ enhanced_query |-> Str(Strip(content)) ]

\* mutant: the fallback to the original query is missing
SearchQueryNoFallback(st) == st.enhanced_query

\* state["enhanced_query"] or state["query"]
SearchQuery(st) ==
    IF st.enhanced_query # "" THEN st.enhanced_query ELSE st.query

\* mutant: max_results is not passed on
DdgsTextNoLimit(pool, n) == pool

\* ddgs.text(query, max_results=n): the first n hits of the backend's list
DdgsText(pool, n) == SubSeq(pool, 1, Min(Len(pool), n))

\* mutant: enumerate(results) without the start index
FormatEntryFromZero(i, result) ==
    ToString(i - 1) \o ". " \o Get(result, "title", "No title") \o ": "
        \o Get(result, "body", "No description")

\* f"{i}. {title}: {body}"
FormatEntry(i, result) ==
    ToString(i) \o ". " \o Get(result, "title", "No title") \o ": "
        \o Get(result, "body", "No description")

\* the for loop over enumerate(results, 1)
FormatResults(results) ==
    [ i \in 1..Len(results) |-> FormatEntry(i, results[i]) ]

NoResults == << "No results found. Try a different query." >>

\* mutant: the empty list is left as it is
EmptyFallbackMissing(formatted) == formatted

\* if not search_results: search_results = [...]
EmptyFallback(formatted) ==
    IF formatted = <<>> THEN NoResults ELSE formatted

\* mutant: the except branch appends to the entries formatted so far
SearchErrorAppend(formatted, msg) ==
    Append(formatted, "Search error: " \o msg \o ". Using fallback data.")

\* the except branch: search_results is rebound to a fresh one-element list
SearchError(formatted, msg) ==
    << "Search error: " \o msg \o ". Using fallback data." >>

\* `at` says where the service raises ("none": nowhere), `pool` is the
\* backend's hit list for the query
search_tool_node(st, pool, at, msg) ==
    LET results   == DdgsText(pool, max_results)
        formatted == FormatResults(results)
    IN  IF at \in { "enter", "text" } THEN
            [ search_results |-> SearchError(<<>>, msg) ]
        ELSE IF at = "exit" THEN
            [ search_results |-> SearchError(formatted, msg) ]
        ELSE
            [ search_results |-> EmptyFallback(formatted) ]

\* mutant: the summarizer also resets the enhanced query
summarize_node_clobber(st, content) ==
    [ summary |-> Str(content), enhanced_query |-> "" ]

summarize_node(st, content) ==
    [ summary |-> Str(content) ]

Sep == "=================================================="

\* mutant: the report also lists the result entries
FormatReportListing(st) ==
    << "", Sep, "SEARCH RESULTS", Sep,
       "Query: " \o st.query,
       "Enhanced: " \o st.enhanced_query,
       "",
       "Results Found: " \o ToString(Len(st.search_results)),
       Join(st.search_results, "\n"),
       "Summary:",
       st.summary,
       Sep, "" >>

\* the f-string of format_output_node
FormatReport(st) ==
    << "", Sep, "SEARCH RESULTS", Sep,
       "Query: " \o st.query,
       "Enhanced: " \o st.enhanced_query,
       "",
       "Results Found: " \o ToString(Len(st.search_results)),
       "",
       "Summary:",
       st.summary,
       Sep, "" >>

\* format_output_node returns the record it was given
format_output_node(st) == st

--------------------------------------------------------------------------
(* The graph *)

\* mutant: the edge out of enhance_query goes to summarize
EdgeSkipsSearch(node) ==
    CASE node = "START"         -> "enhance_query"
      [] node = "enhance_query" -> "summarize"
      [] node = "search_tool"   -> "summarize"
      [] node = "summarize"     -> "format"
      [] node = "format"        -> "END"

\* workflow.add_edge(...)
Edge(node) ==
    CASE node = "START"         -> "enhance_query"
      [] node = "enhance_query" -> "search_tool"
      [] node = "search_tool"   -> "summarize"
      [] node = "summarize"     -> "format"
      [] node = "format"        -> "END"

\* the engine merges a node's returned update into the record
Merge(st, update) ==
    [ k \in DOMAIN st |-> IF k \in DOMAIN update THEN update[k] ELSE st[k] ]

\* mutant: no try/except in the driver, the first error ends the loop
OnErrorAbort(i) == Len(test_queries) + 1

\* the driver's except clause: print the error, go on with the next query
OnError(i) == i + 1

--------------------------------------------------------------------------
(* The script *)

LlmCall(prompt, raised) == [ fn |-> "llm", arg |-> prompt, raised |-> raised ]

SearchCall(query, raised) == [ fn |-> "search", arg |-> query, raised |-> raised ]

\* no search has been made in this run
NoService ==
    [ at |-> "none", msg |-> "", results |-> <<>>, hits |-> 0, called |-> FALSE ]

Init ==
    /\ qi = 1
    /\ pc = "loop"
    /\ state = initial_state("")
    /\ log = <<>>
    /\ calls = <<>>
    /\ resp = <<>>
    /\ svc = NoService
    /\ output = <<>>
    /\ entry = initial_state("")

\* for query in test_queries: build initial_state, call app.invoke
StartQuery ==
    /\ pc = "loop"
    /\ qi <= Len(test_queries)
    /\ state' = initial_state(test_queries[qi])
    /\ pc' = Edge("START")
    /\ log' = Append(log, <<"testing", qi>>)
    /\ calls' = <<>>
    /\ resp' = <<>>
    /\ svc' = NoService
    /\ output' = <<>>
    /\ entry' = initial_state(test_queries[qi])
    /\ UNCHANGED qi

\* enhance_query_node, llm.invoke returns
EnhanceOk ==
    /\ pc = "enhance_query"
    /\ \E content \in Responses :
        /\ state' = Merge(state, enhance_query_node(state, content))
        /\ resp' = Append(resp, content)
    /\ calls' = Append(calls, LlmCall(EnhancePrompt(state), FALSE))
    /\ log' = Append(log, <<"enhance_query", qi>>)
    /\ pc' = Edge(pc)
    /\ UNCHANGED <<qi, svc, output, entry>>

\* enhance_query_node, llm.invoke raises: the error reaches the driver
EnhanceRaise ==
    /\ pc = "enhance_query"
    /\ calls' = Append(calls, LlmCall(EnhancePrompt(state), TRUE))
    /\ log' = log \o << <<"enhance_query", qi>>, <<"error", qi>> >>
    /\ pc' = "loop"
    /\ qi' = OnError(qi)
    /\ UNCHANGED <<state, resp, svc, output, entry>>

\* search_tool_node
Search ==
    /\ pc = "search_tool"
    /\ \E pool \in Pools, at \in RaisePoints, msg \in Messages :
        /\ at \in { "enter", "text" } => pool = <<>>
        /\ at = "none" => msg = "timeout"
        /\ state' = Merge(state, search_tool_node(state, pool, at, msg))
        /\ svc' = [ at |-> at, msg |-> IF at = "none" THEN "" ELSE msg,
                    results |-> IF at \in { "enter", "text" } THEN <<>>
                                ELSE DdgsText(pool, max_results),
                    hits |-> Len(pool),
                    called |-> TRUE ]
        /\ calls' = IF at = "enter" THEN calls
                    ELSE Append(calls, SearchCall(SearchQuery(state), at = "text"))
    /\ log' = Append(log, <<"search_tool", qi>>)
    /\ pc' = Edge(pc)
    /\ UNCHANGED <<qi, resp, output, entry>>

\* summarize_node, llm.invoke returns
SummarizeOk ==
    /\ pc = "summarize"
    /\ \E content \in Responses :
        /\ state' = Merge(state, summarize_node(state, content))
        /\ resp' = Append(resp, content)
    /\ calls' = Append(calls, LlmCall(SummarizePrompt(state), FALSE))
    /\ log' = Append(log, <<"summarize", qi>>)
    /\ pc' = Edge(pc)
    /\ UNCHANGED <<qi, svc, output, entry>>

\* mutant: summarize_node catches the error and goes on
SummarizeRaiseCaught ==
    /\ pc = "summarize"
    /\ calls' = Append(calls, LlmCall(SummarizePrompt(state), TRUE))
    /\ log' = Append(log, <<"summarize", qi>>)
    /\ pc' = Edge(pc)
    /\ UNCHANGED <<qi, state, resp, svc, output, entry>>

\* summarize_node, llm.invoke raises: the error reaches the driver
SummarizeRaise ==
    /\ pc = "summarize"
    /\ calls' = Append(calls, LlmCall(SummarizePrompt(state), TRUE))
    /\ log' = log \o << <<"summarize", qi>>, <<"error", qi>> >>
    /\ pc' = "loop"
    /\ qi' = OnError(qi)
    /\ UNCHANGED <<state, resp, svc, output, entry>>

\* format_output_node
Format ==
    /\ pc = "format"
    /\ entry' = state
    /\ output' = Append(output, FormatReport(state))
    /\ state' = Merge(state, format_output_node(state))
    /\ log' = Append(log, <<"format", qi>>)
    /\ pc' = Edge(pc)
    /\ UNCHANGED <<qi, calls, resp, svc>>

\* app.invoke returned: print the success message, next query
Complete ==
    /\ pc = "END"
    /\ log' = Append(log, <<"success", qi>>)
    /\ pc' = "loop"
    /\ qi' = qi + 1
    /\ UNCHANGED <<state, calls, resp, svc, output, entry>>

\* the loop is exhausted
Finish ==
    /\ pc = "loop"
    /\ qi > Len(test_queries)
    /\ pc' = "done"
    /\ UNCHANGED <<qi, state, log, calls, resp, svc, output, entry>>

Next ==
    \/ StartQuery
    \/ EnhanceOk
    \/ EnhanceRaise
    \/ Search
    \/ SummarizeOk
    \/ SummarizeRaise
    \/ Format
    \/ Complete
    \/ Finish

Spec == Init /\ [][Next]_vars

--------------------------------------------------------------------------
(* format_output_node on its own: applied repeatedly to a record drawn     *)
(* from a bounded set, each time to the record the previous call returned  *)

FmtEntries == { "1. A: B", "2. No title: D", "Search error: timeout. Using fallback data." }

FmtRecords ==
    [ query : { "", test_queries[1] },
      enhanced_query : { "", "a b" },
      search_results : SeqsUpTo(FmtEntries, 2),
      summary : { "", "Summary text" } ]

InitFmt ==
    /\ qi = 1
    /\ pc = "format"
    /\ state \in FmtRecords
    /\ entry = state
    /\ log = <<>>
    /\ calls = <<>>
    /\ resp = <<>>
    /\ svc = NoService
    /\ output = <<>>

\* one more call of format_output_node, on the record the last call returned
FmtApply ==
    /\ Len(output) < MaxApply
    /\ entry' = state
    /\ output' = Append(output, FormatReport(state))
    /\ state' = format_output_node(state)
    /\ log' = Append(log, <<"format", qi>>)
    /\ UNCHANGED <<qi, pc, calls, resp, svc>>

\* the caller passes a record that differs only in what the entries say
FmtOtherEntries ==
    /\ Len(output) < MaxApply
    /\ \E other \in SeqsUpTo(FmtEntries, 2) :
        /\ Len(other) = Len(state.search_results)
        /\ other # state.search_results
        /\ state' = [ state EXCEPT !.search_results = other ]
    /\ entry' = state'
    /\ UNCHANGED <<qi, pc, log, calls, resp, svc, output>>

NextFmt ==
    \/ FmtApply
    \/ FmtOtherEntries

SpecFmt == InitFmt /\ [][NextFmt]_vars

--------------------------------------------------------------------------
(* Vocabulary of the properties *)

InLog(e) == \E k \in DOMAIN log : log[k] = e

Count(e) == Cardinality({ k \in DOMAIN log : log[k] = e })

\* the run of the current query has ended (and the next has not begun)
RunEnded == pc \in { "loop", "done" } /\ log # <<>>

LastEvent == log[Len(log)]

\* names of the events logged for query q, in order
RunEvents(q) ==
    LET mine == SelectSeq(log, LAMBDA e : e[2] = q)
    IN  [ k \in DOMAIN mine |-> mine[k][1] ]

IsPrefix(s, t) == Len(s) <= Len(t) /\ s = SubSeq(t, 1, Len(s))

Pipeline ==
    << "testing", "enhance_query", "search_tool", "summarize", "format", "success" >>

\* line of the report that states the number of results
CountLine(report) == report[8]

--------------------------------------------------------------------------
\* C1: every test query is attempted exactly once and in list order, whichever
\* runs fail; a failed run logs one top-level error and the loop goes on; a run
\* whose stages do not fail prints its report and the success message.
C1_EveryQueryIsRun ==
    LET started == IF pc \in { "loop", "done" } THEN qi - 1 ELSE qi
        testing == SelectSeq(log, LAMBDA e : e[1] = "testing")
    IN  /\ started <= Len(test_queries)
        /\ testing = [ i \in 1..started |-> <<"testing", i>> ]
        /\ pc = "done" => started = Len(test_queries)
        /\ pc \notin { "loop", "done" } => state.query = test_queries[qi]
        /\ \A i \in 1..(qi - 1) :
            /\ Count(<<"error", i>>) + Count(<<"success", i>>) = 1
            /\ ~InLog(<<"error", i>>) =>
                   Count(<<"format", i>>) = 1 /\ Count(<<"success", i>>) = 1

\* the batch scenario: the enhancer raises for the 2nd query only
C1_Witness ==
    /\ pc = "done"
    /\ RunEvents(1) = Pipeline
    /\ RunEvents(2) = << "testing", "enhance_query", "error" >>
    /\ RunEvents(3) = Pipeline

\* C2: when the search service raises nowhere and returns N results (0..3),
\* search_results is the N entries "{i}. {title}: {description}" in the order
\* returned, 1-indexed, with "No title" / "No description" for an absent field;
\* for N = 0 it is the single entry "No results found. Try a different query."
C2_FormattedEntries ==
    (svc.called /\ svc.at = "none") =>
        LET n == Len(svc.results)
            title(r) == IF "title" \in DOMAIN r THEN r.title ELSE "No title"
            descr(r) == IF "body" \in DOMAIN r THEN r.body ELSE "No description"
        IN  /\ n <= 3
            /\ n = 0 =>
                   state.search_results = << "No results found. Try a different query." >>
            /\ n >= 1 =>
                   /\ Len(state.search_results) = n
                   /\ \A i \in 1..n :
                        state.search_results[i] =
                            ToString(i) \o ". " \o title(svc.results[i]) \o ": "
                                \o descr(svc.results[i])

\* three results returned, fields absent in the 2nd and the 3rd
C2_Witness ==
    /\ svc.called /\ svc.at = "none"
    /\ state.search_results = << "1. A: B", "2. C: No description", "3. No title: D" >>

\* the placeholder of a search error with the message the service raised
C3_Placeholder == << "Search error: " \o svc.msg \o ". Using fallback data." >>

\* C3 as stated: an error raised inside the search stage is replaced by the
\* placeholder and the run then always ends as a successful run.
C3_AlwaysSuccessful ==
    svc.at # "none" =>
        /\ state.search_results = C3_Placeholder
        /\ RunEnded =>
            /\ LastEvent = <<"success", qi - 1>>
            /\ Len(output) = 1
            /\ entry.search_results = C3_Placeholder

\* C3, amended: an error raised inside the search stage is not propagated;
\* search_results becomes exactly the placeholder, the summarizer is called on
\* it, and unless the summarizer's own language-model call raises, the formatter
\* runs on it and the run ends as a successful run.
C3_SearchErrorRecovered ==
    svc.at # "none" =>
        /\ state.search_results = C3_Placeholder
        /\ pc = "summarize" => LastEvent = <<"search_tool", qi>>
        /\ pc \in { "format", "END", "loop", "done" } =>
            /\ calls[Len(calls)].fn = "llm"
            /\ calls[Len(calls)].arg =
                   "Summarize these search results for the query '" \o state.query
                       \o "':\n\n" \o C3_Placeholder[1]
                       \o "\n\nProvide a concise, helpful summary:"
        /\ (RunEnded /\ ~calls[Len(calls)].raised) =>
            /\ LastEvent = <<"success", qi - 1>>
            /\ ~InLog(<<"error", qi - 1>>)
            /\ Len(output) = 1
            /\ entry.search_results = C3_Placeholder
            /\ CountLine(output[1]) = "Results Found: 1"

\* the service raised on leaving the with-block, after two entries had been
\* formatted, and the run ended with the success message
C3_Witness ==
    /\ svc.at = "exit"
    /\ Len(svc.results) = 2
    /\ RunEnded
    /\ LastEvent[1] = "success"

\* C4: a language-model call that raises in the enhancer or the summarizer ends
\* the run: it is the run's last external call, no later node runs, no report is
\* printed, the field the node would have written is still empty, and the
\* driver has logged exactly one error for the query and moved to the next.
C4_LlmErrorEndsRun ==
    \A k \in DOMAIN calls :
        (calls[k].fn = "llm" /\ calls[k].raised) =>
            /\ k = Len(calls)
            /\ pc \in { "loop", "done" }
            /\ state.query = test_queries[qi - 1]
            /\ LastEvent = <<"error", qi - 1>>
            /\ Count(<<"error", qi - 1>>) = 1
            /\ ~InLog(<<"format", qi - 1>>)
            /\ ~InLog(<<"success", qi - 1>>)
            /\ output = <<>>
            /\ state.summary = ""
            /\ k = 1 =>
                /\ ~svc.called
                /\ ~InLog(<<"search_tool", qi - 1>>)
                /\ ~InLog(<<"summarize", qi - 1>>)
                /\ state.enhanced_query = ""
                /\ state.search_results = <<>>
            /\ k > 1 =>
                /\ svc.called
                /\ RunEvents(qi - 1) =
                       << "testing", "enhance_query", "search_tool", "summarize", "error" >>

\* the summarizer's call raised after a search that returned results
C4_Witness ==
    /\ Len(calls) = 3
    /\ calls[3].fn = "llm" /\ calls[3].raised
    /\ Len(svc.results) = 2
    /\ pc = "loop"

C6_FieldsWrittenOnce ==
    [][ /\ state'.query # state.query => pc = "loop"
        /\ state'.enhanced_query # state.enhanced_query =>
               \/ pc = "loop"
               \/ pc = "enhance_query" /\ ~InLog(<<"enhance_query", qi>>)
        /\ state'.search_results # state.search_results =>
               \/ pc = "loop"
               \/ pc = "search_tool" /\ ~InLog(<<"search_tool", qi>>)
        /\ state'.summary # state.summary =>
               \/ pc = "loop"
               \/ pc = "summarize" /\ ~InLog(<<"summarize", qi>>)
        /\ pc = "format" => state' = state
        /\ (pc = "loop" /\ pc' # "done") => state' = initial_state(test_queries[qi])
      ]_vars

\* a run in which every node wrote a non-empty value and the formatter returned
C6_Witness ==
    /\ pc = "END"
    /\ state.enhanced_query = "a b"
    /\ Len(state.search_results) = 2
    /\ state.summary # ""

\* C7: the events of each query are a prefix of testing, enhance_query,
\* search_tool, summarize, format, success, or stop with an error right after
\* enhance_query or summarize; the runs of different queries do not interleave;
\* a run makes at most two language-model calls and one search call, in that
\* order; and each node sees the record with the previous node's update merged.
C7_StrictlyForward ==
    LET fns == [ k \in DOMAIN calls |-> calls[k].fn ]
    IN  /\ \A q \in 1..Len(test_queries) :
            \/ IsPrefix(RunEvents(q), Pipeline)
            \/ RunEvents(q) = << "testing", "enhance_query", "error" >>
            \/ RunEvents(q) =
                   << "testing", "enhance_query", "search_tool", "summarize", "error" >>
        /\ \A k \in DOMAIN log : k > 1 => log[k - 1][2] <= log[k][2]
        /\ \A k \in DOMAIN log :
               (k > 1 /\ log[k][1] = "testing") => log[k - 1][1] \in { "success", "error" }
        /\ \/ IsPrefix(fns, << "llm", "search", "llm" >>)
           \/ IsPrefix(fns, << "llm", "llm" >>) /\ svc.at = "enter"
        /\ pc = "search_tool" => state.enhanced_query = Str(Strip(resp[1]))
        /\ pc = "summarize" => state.search_results # <<>>
        /\ pc \in { "format", "END" } =>
               /\ calls[Len(calls)] = LlmCall(SummarizePrompt(state), FALSE)
               /\ state.summary = Str(resp[2])

\* the second query's run has gone through all four nodes, after the first
\* query's run ended with an error
C7_Witness ==
    /\ qi = 2
    /\ pc = "END"
    /\ RunEvents(1) = << "testing", "enhance_query", "search_tool", "summarize", "error" >>
    /\ Len(calls) = 3

\* C8: enhanced_query is the model's response without its leading and trailing
\* whitespace; the query passed to the search service is enhanced_query when
\* that is non-empty and the original query otherwise, so an empty or
\* whitespace-only response makes the search use the original query.
C8_SearchUsesEnhancedOrOriginal ==
    (resp # <<>>) =>
        LET content == resp[1]
            n == Len(content)
            blank(k) == content[k] \in { " ", "\t", "\n" }
        IN  /\ \E i \in 1..(n + 1), j \in 0..n :
                /\ i <= j + 1
                /\ \A k \in 1..(i - 1) : blank(k)
                /\ \A k \in (j + 1)..n : blank(k)
                /\ i <= j => ~blank(i) /\ ~blank(j)
                /\ state.enhanced_query = Str(SubSeq(content, i, j))
            /\ \A k \in DOMAIN calls :
                calls[k].fn = "search" =>
                    /\ state.enhanced_query # "" => calls[k].arg = state.enhanced_query
                    /\ state.enhanced_query = "" => calls[k].arg = state.query
                    /\ (\A c \in 1..n : blank(c)) => calls[k].arg = state.query

\* the model answered with a single blank and the search got the original query
C8_Witness ==
    /\ resp # <<>> /\ resp[1] = << " " >>
    /\ Len(calls) >= 2
    /\ calls[2] = SearchCall(test_queries[1], FALSE)

\* C9 (under SpecFmt): format_output_node makes no external call and returns
\* the record it received; every call prints the same report, also on a record
\* that differs only in what the entries of search_results say.
C9_FormatterPure ==
    /\ calls = <<>>
    /\ state = entry
    /\ \A i \in DOMAIN output : output[i] = output[1]

\* the formatter has been applied three times to a record with two entries
C9_Witness ==
    /\ Len(output) = 3
    /\ Len(state.search_results) = 2
    /\ state.summary = "Summary text"

\* C10: when the formatter runs search_results is not empty and the report
\* never states 0 results; after zero results or a search error the record
\* holds one placeholder entry and the report states 1; after N >= 1 results
\* without an error it states N.
C10_ResultsFoundNeverZero ==
    output # <<>> =>
        /\ entry.search_results # <<>>
        /\ CountLine(output[1]) # "Results Found: 0"
        /\ (svc.at # "none" \/ svc.results = <<>>) =>
            /\ Len(entry.search_results) = 1
            /\ entry.search_results[1] \in
                   { "No results found. Try a different query.",
                     "Search error: " \o svc.msg \o ". Using fallback data." }
            /\ CountLine(output[1]) = "Results Found: 1"
        /\ (svc.at = "none" /\ svc.results # <<>>) =>
            CountLine(output[1]) = "Results Found: " \o ToString(Len(svc.results))

\* the service returned nothing and the report states one result
C10_Witness ==
    /\ output # <<>>
    /\ svc.called /\ svc.at = "none" /\ svc.results = <<>>
    /\ CountLine(output[1]) = "Results Found: 1"

====
